---- MODULE Spec2Model ----
(***************************************************************************)
(* A model of dottery: the deploy run of main (src/src/main.rs) over the   *)
(* raw and template passes of src/src/processing.rs, the package filter of *)
(* main.rs, and the pure path / filter helpers they are built from.        *)
(*                                                                         *)
(* Strings are sequences of one-character strings, so that str::replace,   *)
(* Path::components and Path::extension are computed character by          *)
(* character, as the standard library does.  An Option<T> is a sequence of *)
(* length 0 (None) or 1 (Some).                                            *)
(***************************************************************************)
EXTENDS Integers, Sequences, FiniteSets, TLC

None == <<>>
Some(x) == <<x>>

\* ------------------------------------------------------------------ bounds
MaxTemplateFiles == 6
MaxRawFiles == 2
MaxDepth == 2

\* ----------------------------------------------------------- string helpers
Range(s) == {s[i] : i \in DOMAIN s}

StartsWith(s, p) == Len(s) >= Len(p) /\ SubSeq(s, 1, Len(p)) = p

\* str::replace(from, to): every non-overlapping match, left to right.
RECURSIVE replace(_, _, _)
replace(s, from, to) ==
    IF from = <<>> \/ Len(s) < Len(from) THEN s
    ELSE IF StartsWith(s, from)
         THEN to \o replace(SubSeq(s, Len(from) + 1, Len(s)), from, to)
         ELSE <<Head(s)>> \o replace(Tail(s), from, to)

first_index(s, sep) ==
    CHOOSE k \in DOMAIN s : s[k] = sep /\ \A j \in 1..(k - 1) : s[j] # sep

\* The segments of s between occurrences of the separator character.
RECURSIVE Split(_, _)
Split(s, sep) ==
    IF \A i \in DOMAIN s : s[i] # sep THEN <<s>>
    ELSE <<SubSeq(s, 1, first_index(s, sep) - 1)>>
         \o Split(SubSeq(s, first_index(s, sep) + 1, Len(s)), sep)

RECURSIVE Join(_, _)
Join(segs, sep) ==
    IF segs = <<>> THEN <<>>
    ELSE IF Len(segs) = 1 THEN segs[1]
    ELSE segs[1] \o <<sep>> \o Join(Tail(segs), sep)

\* Path::components of a Unix path: a leading "/" is RootDir, empty segments
\* and non-leading "." are dropped, ".." is ParentDir, the rest are Normal.
is_absolute(path) == path # <<>> /\ path[1] = "/"

component(seg) ==
    IF seg = <<".", ".">> THEN [kind |-> "ParentDir", name |-> seg]
    ELSE IF seg = <<".">> THEN [kind |-> "CurDir", name |-> seg]
    ELSE [kind |-> "Normal", name |-> seg]

RECURSIVE components_from(_, _, _)
components_from(segs, i, abs) ==
    IF i > Len(segs) THEN <<>>
    ELSE IF segs[i] # <<>> /\ (segs[i] = <<".">> => (i = 1 /\ ~abs))
         THEN <<component(segs[i])>> \o components_from(segs, i + 1, abs)
         ELSE components_from(segs, i + 1, abs)

Components(path) ==
    (IF is_absolute(path) THEN <<[kind |-> "RootDir", name |-> <<"/">>]>> ELSE <<>>)
    \o components_from(Split(path, "/"), 1, is_absolute(path))

\* Path::file_name: the last component when it is a Normal one.
last_normal(cs) ==
    IF cs # <<>> /\ cs[Len(cs)].kind = "Normal" THEN Some(cs[Len(cs)].name) ELSE None

file_name(path) == last_normal(Components(path))

\* Path::extension: the part of the file name after its last ".", None when
\* the name has no "." or only a leading one.
last_dot(n) ==
    CHOOSE i \in 0..Len(n) :
        IF i = 0 THEN \A j \in DOMAIN n : n[j] # "."
        ELSE n[i] = "." /\ \A j \in (i + 1)..Len(n) : n[j] # "."

name_extension(n) ==
    IF last_dot(n) <= 1 THEN None ELSE Some(SubSeq(n, last_dot(n) + 1, Len(n)))

option_extension(fn) == IF fn = None THEN None ELSE name_extension(fn[1])

extension(path) == option_extension(file_name(path))

\* Path::parent: the path without its last component.
RECURSIVE names_before_last(_, _)
names_before_last(cs, i) ==
    IF i > Len(cs) - 1 THEN <<>>
    ELSE IF cs[i].kind = "RootDir" THEN names_before_last(cs, i + 1)
    ELSE <<cs[i].name>> \o names_before_last(cs, i + 1)

parent_of(cs) ==
    IF cs = <<>> \/ (Len(cs) = 1 /\ cs[1].kind = "RootDir") THEN None
    ELSE Some((IF cs[1].kind = "RootDir" THEN <<"/">> ELSE <<>>)
              \o Join(names_before_last(cs, 1), "/"))

parent(path) == parent_of(Components(path))

\* ------------------------------------------------- names used by the inputs
S_raw == <<"r", "a", "w">>
S_template == <<"t", "e", "m", "p", "l", "a", "t", "e">>
S_css == <<"c", "s", "s">>
S_z == <<"z">>
S_n == <<"n">>
S_home == <<"/", "h">>

\* Candidate locations of the dotfiles checkout (already canonical paths).
\* The second has a parent directory that is named like a dotfile group.
DotfilesPaths == { <<"/", "d">>, <<"/", "z", "/", "d">> }

\* ---------------------------------------------------------- processing.rs
BIN_EXTENSIONS == { <<"p", "n", "g">>, <<"j", "p", "g">> }
sass_extensions == { <<"s", "a", "s", "s">>, <<"s", "c", "s", "s">> }

\* format!("{}/raw/", ..) and format!("{}/template/", ..): the walk roots.
dots_dir(cfg, tree) == cfg.paths.dotfiles_path \o <<"/">> \o tree \o <<"/">>

\* The path WalkDir gives an entry: the root joined with the names below it.
entry_path(root, rel) == root \o Join(rel, "/")

\* A filter that accepts a component when a listed name is a prefix of it.
component_matches_prefix(c, dots) ==
    IF c.kind = "Normal" THEN \E j \in DOMAIN dots : StartsWith(c.name, dots[j]) ELSE FALSE

\* dots.contains(name) for one component.
component_matches(c, dots) ==
    IF c.kind = "Normal" THEN \E j \in DOMAIN dots : dots[j] = c.name ELSE FALSE

any_component(cs, dots) == \E i \in DOMAIN cs : component_matches(cs[i], dots)

should_deploy(entry, to_deploy) ==
    IF to_deploy = None THEN TRUE
    ELSE any_component(Components(entry.path), to_deploy[1])

\* The predicate given to filter_entry: an entry it rejects is not yielded
\* and, when a directory, not descended into.
filter_entry(entry, to_deploy) ==
    entry.kind = "dir" \/ should_deploy(entry, to_deploy)

\* The destination of a raw file and of a rendered template.
raw_target(path_str, cfg, home_str) ==
    replace(path_str, cfg.paths.dotfiles_path \o <<"/">> \o S_raw, home_str)

template_target(path_str, cfg, home_str) ==
    replace(path_str, cfg.paths.dotfiles_path \o <<"/">> \o S_template, home_str)

\* The binary check: true when the file is skipped by the template pass.
\* A check that only looks at the denylist and lets extension-less files through.
is_bin_only(ext) == ext # None /\ ext[1] \in BIN_EXTENSIONS

is_none_or_bin(ext) == ext = None \/ ext[1] \in BIN_EXTENSIONS

is_skipped(path) == is_none_or_bin(extension(path))

\* Path::with_extension("css") of a path that has an extension.
set_extension(path, ext, new) ==
    IF ext = None THEN path \o <<".">> \o new
    ELSE SubSeq(path, 1, Len(path) - Len(ext[1])) \o new

with_extension_css(path) == set_extension(path, extension(path), S_css)

\* ------------------------------------------------------ template renderer
\* A template source is a sequence of pieces: literal text, {{ k }}, an
\* attribute lookup {{ k.attr }}, or a malformed directive.
Lit(v) == [t |-> "lit", v |-> v, k |-> ""]
Var(k) == [t |-> "var", v |-> "", k |-> k]
Attr(k) == [t |-> "attr", v |-> "", k |-> k]
Bad == [t |-> "bad", v |-> "", k |-> ""]

\* Environment::template_from_str: Err on a syntax error.
template_from_str(contents) ==
    IF \E i \in DOMAIN contents : contents[i].t = "bad"
    THEN [ok |-> FALSE, tmpl |-> <<>>]
    ELSE [ok |-> TRUE, tmpl |-> contents]

\* Template::render: a variable is looked up in the settings table (an
\* undefined one prints nothing), an attribute of an undefined value is an
\* error.
render_piece(h, ctx) ==
    IF h.t = "lit" THEN <<h.v>>
    ELSE IF h.t = "var" /\ h.k \in DOMAIN ctx THEN <<ctx[h.k]>>
    ELSE <<>>

RECURSIVE render_pieces(_, _)
render_pieces(tmpl, ctx) ==
    IF tmpl = <<>> THEN <<>>
    ELSE render_piece(Head(tmpl), ctx) \o render_pieces(Tail(tmpl), ctx)

render(tmpl, ctx) ==
    IF \E i \in DOMAIN tmpl : tmpl[i].t = "attr" /\ tmpl[i].k \notin DOMAIN ctx
    THEN [ok |-> FALSE, output |-> <<>>]
    ELSE [ok |-> TRUE, output |-> render_pieces(tmpl, ctx)]

\* ------------------------------------------------------------ source trees
\* The files below <dotfiles>/template/, by the names below the root.
TemplateUniverse ==
    << [rel |-> <<S_z, <<"a", ".", "s", "h">>>>,      contents |-> <<Lit("user="), Var("name")>>],
       [rel |-> <<S_n, <<"i", ".", "l", "u", "a">>>>, contents |-> <<Lit("set")>>],
       [rel |-> <<S_n, <<"b", ".", "s", "h">>>>,      contents |-> <<Attr("host")>>],
       [rel |-> <<S_n, <<"p", ".", "p", "n", "g">>>>, contents |-> <<Lit("PNG")>>],
       [rel |-> <<S_z, <<".", "z", "r", "c">>>>,      contents |-> <<Var("name")>>],
       [rel |-> <<S_z, <<"s", ".", "s", "c", "s", "s">>>>, contents |-> <<Lit("$c")>>],
       [rel |-> <<<<"u", ".", "s", "h">>>>,           contents |-> <<Bad>>] >>

TemplateTree ==
    {TemplateUniverse[i] : i \in {j \in DOMAIN TemplateUniverse : j <= MaxTemplateFiles}}

\* The files below <dotfiles>/raw/.
RawUniverse ==
    << [rel |-> <<S_z, <<"e">>>>,                     contents |-> <<Lit("E")>>],
       [rel |-> <<<<"k", ".", "p", "n", "g">>>>,      contents |-> <<Lit("K")>>],
       [rel |-> <<S_n, <<"f">>>>,                     contents |-> <<Lit("F")>>] >>

RawTree ==
    {RawUniverse[i] : i \in {j \in DOMAIN RawUniverse : j <= MaxRawFiles}}

\* The entries of a walk of `tree` rooted at `root`: every directory above a
\* file, and the files.
dir_entries(tree, root) ==
    UNION {{[path |-> entry_path(root, SubSeq(f.rel, 1, n)), kind |-> "dir", contents |-> <<>>] :
               n \in 0..(Len(f.rel) - 1)} : f \in tree}

file_entries(tree, root) ==
    {[path |-> entry_path(root, f.rel), kind |-> "file", contents |-> f.contents] : f \in tree}

\* WalkDir with filter_entry(pred): an entry is yielded when pred accepts it
\* and every directory above it; filter_map then keeps the files.  With no
\* predicate (copy_raw) every file is yielded.
is_below(dir, e) == e.path # dir.path /\ StartsWith(e.path, dir.path)
                    /\ (dir.path[Len(dir.path)] = "/" \/ e.path[Len(dir.path) + 1] = "/")

walk_files(tree, root, to_deploy) ==
    {e \in file_entries(tree, root) :
        /\ filter_entry(e, to_deploy)
        /\ \A d \in dir_entries(tree, root) : is_below(d, e) => filter_entry(d, to_deploy)}

\* ------------------------------------------------------------------ state
VARIABLES
    pc,          \* where main is: a label of main.rs, "done" or "panicked"
    args,        \* the parsed command line (Args)
    doc,         \* the file ..toml of the dotfiles directory
    sys,         \* what the machine has: sass, yay, a dotfiles directory
                 \* and the file .personal.toml in it
    config,      \* Config, once read_config returned
    settings,    \* the toml::Value main holds
    dotfiles,    \* Option<Dotfiles>: the manifest decoded from `dottery`
    raw,         \* raw pass: entry path -> what happened to it
    tpl,         \* template pass: entry path -> what happened to it
    result,      \* Option<io::Result<()>> returned by process_templates
    dest_files,  \* the files below the home directory: path -> contents
    dest_dirs,   \* the directories that exist below the home directory
    log,         \* what log_error printed
    rendered,    \* the (path, settings) pairs handed to the renderer
    installed,   \* Option<(cmd, names)>: the installer invocation
    call,        \* the helper call under test (helper specifications)
    ret          \* what it returned

vars == <<pc, args, doc, sys, config, settings, dotfiles, raw, tpl, result,
          dest_files, dest_dirs, log, rendered, installed, call, ret>>

run_vars == <<pc, args, doc, sys, config, settings, dotfiles, raw, tpl, result,
              dest_files, dest_dirs, log, rendered, installed>>

EmptyMap == [x \in {} |-> ""]
Put(f, k, v) == [x \in DOMAIN f \cup {k} |-> IF x = k THEN v ELSE f[x]]

\* ----------------------------------------------------------------- inputs
Pkg(n, a) == [name |-> n, from_aur |-> a]

Manifest == [shape |-> "manifest",
             packages |-> <<Pkg("a", Some(TRUE)), Pkg("b", None)>>]

\* ..toml: missing, not TOML, without `dottery`, with a `dottery` that is
\* not a manifest, and a good one.
Docs ==
    { [found |-> FALSE, ok |-> FALSE, table |-> EmptyMap],
      [found |-> TRUE, ok |-> FALSE, table |-> EmptyMap],
      [found |-> TRUE, ok |-> TRUE, table |-> [k \in {"name"} |-> "alice"]],
      [found |-> TRUE, ok |-> TRUE,
       table |-> [k \in {"name", "dottery"} |->
                    IF k = "name" THEN "alice" ELSE [shape |-> "other", packages |-> <<>>]]],
      [found |-> TRUE, ok |-> TRUE,
       table |-> [k \in {"name", "dottery"} |-> IF k = "name" THEN "alice" ELSE Manifest]] }

Deploys ==
    [cmd : {"Deploy"}, dotfiles : {None, Some(<<S_z>>)}, packages : {None},
     raw : BOOLEAN, template : BOOLEAN]

Installs ==
    [cmd : {"Install"}, dotfiles : {None}, packages : {None, Some(<<"b">>)},
     raw : {FALSE}, template : {FALSE}]

\* .personal.toml of the dotfiles directory: absent, or a table that
\* redefines `name` and adds `host`.
Personal == [k \in {"name", "host"} |-> IF k = "name" THEN "bob" ELSE "pc"]

Systems ==
    [sass : {"found", "missing"}, yay : BOOLEAN,
     dots : {Some(p) : p \in DotfilesPaths} \cup {None},
     personal : {None, Some(Personal)}]

\* Config: the dotfiles path and the files to include (Config::default).
Config(dotfiles_path) ==
    [paths |-> [dotfiles_path |-> dotfiles_path],
     files |-> [include |-> <<".personal.toml">>]]

Init ==
    /\ pc = "read_config"
    /\ args \in Deploys \cup Installs
    /\ doc \in Docs
    /\ sys \in Systems
    /\ config = Config(<<>>)
    /\ settings = EmptyMap
    /\ dotfiles = None
    /\ raw = EmptyMap
    /\ tpl = EmptyMap
    /\ result = None
    /\ dest_files = EmptyMap
    /\ dest_dirs = {S_home}
    /\ log = {}
    /\ rendered = {}
    /\ installed = None
    /\ call = None
    /\ ret = None

\* ---------------------------------------------------------------- main.rs
Panic == pc' = "panicked"

\* read_config: the dotfiles path is canonicalized, which panics when the
\* directory does not exist.
read_config ==
    /\ pc = "read_config"
    /\ IF sys.dots = None
       THEN Panic /\ UNCHANGED config
       ELSE /\ config' = Config(sys.dots[1])
            /\ pc' = "load_settings"
    /\ UNCHANGED <<args, doc, sys, settings, dotfiles, raw, tpl, result,
                   dest_files, dest_dirs, log, rendered, installed, call, ret>>

\* set_current_dir, then ..toml is read and parsed; each failure is an expect.
\* No file named by config.files.include is opened: the settings are the
\* table of ..toml alone.
load_settings ==
    /\ pc = "load_settings"
    /\ IF ~doc.found \/ ~doc.ok
       THEN Panic /\ UNCHANGED settings
       ELSE /\ settings' = doc.table
            /\ pc' = "extract_manifest"
    /\ UNCHANGED <<args, doc, sys, config, dotfiles, raw, tpl, result,
                   dest_files, dest_dirs, log, rendered, installed, call, ret>>

\* A decoder that accepts any value.
Dotfiles_deserialize_lenient(v) == [ok |-> TRUE, value |-> v]

\* The key `dottery` is removed from the settings and decoded into Dotfiles.
Dotfiles_deserialize(v) ==
    IF v.shape = "manifest" THEN [ok |-> TRUE, value |-> v] ELSE [ok |-> FALSE, value |-> v]

\* A lookup that leaves the key in the table.
remove_keep(ss, key) == ss

\* Map::remove: the table without the key.
remove(ss, key) == [k \in DOMAIN ss \ {key} |-> ss[k]]

extract_manifest ==
    /\ pc = "extract_manifest"
    /\ IF "dottery" \notin DOMAIN settings
       THEN Panic /\ UNCHANGED <<settings, dotfiles>>
       ELSE /\ settings' = remove(settings, "dottery")
            /\ IF Dotfiles_deserialize(settings["dottery"]).ok
               THEN /\ dotfiles' = Some(Dotfiles_deserialize(settings["dottery"]).value)
                    /\ pc' = "parse_args"
               ELSE Panic /\ UNCHANGED dotfiles
    /\ UNCHANGED <<args, doc, sys, config, raw, tpl, result,
                   dest_files, dest_dirs, log, rendered, installed, call, ret>>

\* match args.command
parse_args ==
    /\ pc = "parse_args"
    /\ pc' = IF args.cmd = "Install" THEN "install" ELSE "deploy_raw"
    /\ UNCHANGED <<args, doc, sys, config, settings, dotfiles, raw, tpl, result,
                   dest_files, dest_dirs, log, rendered, installed, call, ret>>

\* ------------------------------------------------------- the walk of a pass
\* A directory that cannot be read is yielded as an Err and nothing below it
\* is; at most one directory of a tree is unreadable here.
Unreadable(tree, root) == {{}} \cup {{d} : d \in dir_entries(tree, root)}

not_below(files, bad) == {e \in files : \A d \in bad : ~is_below(d, e)}

Status(res, what) == [res |-> res, what |-> what]
Pending == Status("pending", "")
UnreadableDir == Status("unreadable", "")
Visited(st) == st.res \notin {"pending", "unreadable"}

walk_start(files, bad) ==
    [p \in {e.path : e \in not_below(files, bad)} \cup {d.path : d \in bad} |->
        IF p \in {d.path : d \in bad} THEN UnreadableDir ELSE Pending]

RECURSIVE with_ancestors(_)
with_ancestors(dir) ==
    {dir} \cup (IF parent(dir) = None THEN {} ELSE with_ancestors(parent(dir)[1]))

\* ------------------------------------------------------------ the raw pass
deploy_raw ==
    /\ pc = "deploy_raw"
    /\ IF ~args.template
       THEN /\ \E bad \in Unreadable(RawTree, dots_dir(config, S_raw)) :
                 raw' = walk_start(file_entries(RawTree, dots_dir(config, S_raw)), bad)
            /\ pc' = "copy_raw"
       ELSE pc' = "deploy_template" /\ UNCHANGED raw
    /\ UNCHANGED <<args, doc, sys, config, settings, dotfiles, tpl, result,
                   dest_files, dest_dirs, log, rendered, installed, call, ret>>

\* filter_map: an Err of the walk is logged and dropped.
copy_raw_walk_err ==
    /\ pc = "copy_raw"
    /\ \E p \in DOMAIN raw :
         /\ raw[p] = UnreadableDir
         /\ raw' = [raw EXCEPT ![p] = Status("logged", "walk")]
         /\ log' = log \cup {[path |-> p, what |-> "walk"]}
    /\ UNCHANGED <<pc, args, doc, sys, config, settings, dotfiles, tpl, result,
                   dest_files, dest_dirs, rendered, installed, call, ret>>

\* The directories after `if !parent_dir.exists() { create_dir_all }`.
dirs_after_create(dir, mk_ok) ==
    IF dir \notin dest_dirs /\ mk_ok THEN dest_dirs \cup with_ancestors(dir) ELSE dest_dirs

\* What one call of the for_each closure leaves behind: both results go to
\* log_on_err.
copy_effect(e, target_path, dirs, copied, mk_failed) ==
    /\ dest_dirs' = dirs
    /\ dest_files' = IF copied THEN Put(dest_files, target_path, e.contents) ELSE dest_files
    /\ log' = log
              \cup (IF mk_failed THEN {[path |-> e.path, what |-> "create_dir_all"]} ELSE {})
              \cup (IF ~copied THEN {[path |-> e.path, what |-> "copy"]} ELSE {})
    /\ raw' = [raw EXCEPT ![e.path] = IF copied THEN Status("ok", "copied")
                                        ELSE Status("err", "copy")]
    /\ pc' = pc

\* A raw pass that unwraps the copy instead of logging its error.
copy_into_fail_fast(e, target_path, parent_dir, mk_ok, cp_ok) ==
    IF parent_dir = None \/ ~(cp_ok /\ parent_dir[1] \in dirs_after_create(parent_dir[1], mk_ok))
    THEN Panic /\ UNCHANGED <<raw, dest_files, dest_dirs, log>>
    ELSE copy_effect(e, target_path, dirs_after_create(parent_dir[1], mk_ok), TRUE,
                     parent_dir[1] \notin dest_dirs /\ ~mk_ok)

\* The environment decides whether create_dir_all and copy succeed; copy
\* cannot succeed without the parent directory.
copy_into(e, target_path, parent_dir, mk_ok, cp_ok) ==
    IF parent_dir = None
    THEN Panic /\ UNCHANGED <<raw, dest_files, dest_dirs, log>>
    ELSE copy_effect(e, target_path, dirs_after_create(parent_dir[1], mk_ok),
                     cp_ok /\ parent_dir[1] \in dirs_after_create(parent_dir[1], mk_ok),
                     parent_dir[1] \notin dest_dirs /\ ~mk_ok)

copy_file(e, target_path, mk_ok, cp_ok) ==
    copy_into(e, target_path, parent(target_path), mk_ok, cp_ok)

\* for_each: one file of the raw tree.
copy_raw_entry ==
    /\ pc = "copy_raw"
    /\ \E e \in file_entries(RawTree, dots_dir(config, S_raw)), mk_ok, cp_ok \in BOOLEAN :
         /\ e.path \in DOMAIN raw
         /\ raw[e.path] = Pending
         /\ copy_file(e, raw_target(e.path, config, S_home), mk_ok, cp_ok)
    /\ UNCHANGED <<args, doc, sys, config, settings, dotfiles, tpl, result,
                   rendered, installed, call, ret>>

copy_raw_return ==
    /\ pc = "copy_raw"
    /\ \A p \in DOMAIN raw : Visited(raw[p])
    /\ pc' = "deploy_template"
    /\ UNCHANGED <<args, doc, sys, config, settings, dotfiles, raw, tpl, result,
                   dest_files, dest_dirs, log, rendered, installed, call, ret>>

\* ------------------------------------------------------- the template pass
deploy_template ==
    /\ pc = "deploy_template"
    /\ IF ~args.raw
       THEN /\ \E bad \in Unreadable(TemplateTree, dots_dir(config, S_template)) :
                 tpl' = walk_start(walk_files(TemplateTree, dots_dir(config, S_template),
                                              args.dotfiles), bad)
            /\ pc' = "process_templates"
       ELSE pc' = "done" /\ UNCHANGED tpl
    /\ UNCHANGED <<args, doc, sys, config, settings, dotfiles, raw, result,
                   dest_files, dest_dirs, log, rendered, installed, call, ret>>

\* filter_map: an Err of the walk is logged and dropped.
process_templates_walk_err ==
    /\ pc = "process_templates"
    /\ result = None
    /\ \E p \in DOMAIN tpl :
         /\ tpl[p] = UnreadableDir
         /\ tpl' = [tpl EXCEPT ![p] = Status("logged", "walk")]
         /\ log' = log \cup {[path |-> p, what |-> "walk"]}
    /\ UNCHANGED <<pc, args, doc, sys, config, settings, dotfiles, raw, result,
                   dest_files, dest_dirs, rendered, installed, call, ret>>

\* The places where the environment can make a call of the closure fail.
IoFaults == {"none", "open", "read", "create_dir_all", "write", "sass"}

Outcome(res, what, handed, dirs, files) ==
    [res |-> res, what |-> what, handed |-> handed, dirs |-> dirs, files |-> files]

\* process_sass on the file just written: todo!() without the compiler, the
\* compiler's failure as an Err, else the sibling .css file.
process_sass(path, io, dirs, files) ==
    IF sys.sass # "found" THEN Outcome("panic", "sass", TRUE, dirs, files)
    ELSE IF io = "sass" THEN Outcome("err", "sass", TRUE, dirs, files)
    ELSE Outcome("ok", "written", TRUE, dirs, Put(files, with_extension_css(path), <<"css">>))

\* match f.path().extension(): only .sass and .scss are post-processed.
post_process(ext, target_path, io, dirs, files) ==
    IF ext # None /\ ext[1] \in sass_extensions
    THEN process_sass(target_path, io, dirs, files)
    ELSE Outcome("ok", "written", TRUE, dirs, files)

\* std::fs::write, then the post-processing.
write_file(e, output, io, target_path, dirs) ==
    IF io = "write" THEN Outcome("err", "write", TRUE, dirs, dest_files)
    ELSE post_process(extension(e.path), target_path, io, dirs,
                      Put(dest_files, target_path, output))

\* The destination's directory is created when it is missing.
write_in(e, output, io, target_path, parent_dir) ==
    IF parent_dir = None THEN Outcome("panic", "parent", TRUE, dest_dirs, dest_files)
    ELSE IF parent_dir[1] \notin dest_dirs /\ io = "create_dir_all"
    THEN Outcome("err", "create_dir_all", TRUE, dest_dirs, dest_files)
    ELSE write_file(e, output, io, target_path, dest_dirs \cup with_ancestors(parent_dir[1]))

write_to(e, output, io, target_path) ==
    write_in(e, output, io, target_path, parent(target_path))

\* From the rendered output on: the destination, its directory, the write and
\* the post-processing.
write_output(e, output, io) ==
    write_to(e, output, io, template_target(e.path, config, S_home))

\* Parsing and rendering: both results are unwrapped.
unwrap_render(e, io, output) ==
    IF ~output.ok THEN Outcome("panic", "render", TRUE, dest_dirs, dest_files)
    ELSE write_output(e, output.output, io)

unwrap_template(e, io, tmpl) ==
    IF ~tmpl.ok THEN Outcome("panic", "template_from_str", TRUE, dest_dirs, dest_files)
    ELSE unwrap_render(e, io, render(tmpl.tmpl, settings))

render_entry(e, io) == unwrap_template(e, io, template_from_str(e.contents))

\* The closure given to map, for one file the walk yields.
closure(e, io) ==
    IF io = "open" THEN Outcome("err", "open", FALSE, dest_dirs, dest_files)
    ELSE IF is_skipped(e.path) THEN Outcome("ok", "skipped", FALSE, dest_dirs, dest_files)
    ELSE IF io = "read" THEN Outcome("err", "read", FALSE, dest_dirs, dest_files)
    ELSE render_entry(e, io)

\* What one item of the collection leaves behind.
collect_item(e, r) ==
    /\ dest_dirs' = r.dirs
    /\ dest_files' = r.files
    /\ rendered' = IF r.handed THEN rendered \cup {[path |-> e.path, ctx |-> settings]}
                   ELSE rendered
    /\ tpl' = [tpl EXCEPT ![e.path] = Status(r.res, r.what)]
    /\ result' = IF r.res = "err"
                 THEN Some([ok |-> FALSE, path |-> e.path, what |-> r.what])
                 ELSE result
    /\ pc' = IF r.res = "panic" THEN "panicked" ELSE pc

\* collect::<io::Result<()>>() pulls one item: the next file of the walk goes
\* through the closure; an Err ends the collection, a panic ends the process.
process_templates_entry ==
    /\ pc = "process_templates"
    /\ result = None
    /\ \E e \in file_entries(TemplateTree, dots_dir(config, S_template)), io \in IoFaults :
         /\ e.path \in DOMAIN tpl
         /\ tpl[e.path] = Pending
         /\ collect_item(e, closure(e, io))
    /\ UNCHANGED <<args, doc, sys, config, settings, dotfiles, raw, log, installed, call, ret>>

\* process_templates returns to main, which hands the result to log_on_err.
process_templates_return ==
    /\ pc = "process_templates"
    /\ result # None \/ \A p \in DOMAIN tpl : Visited(tpl[p])
    /\ result' = IF result = None THEN Some([ok |-> TRUE, path |-> <<>>, what |-> ""]) ELSE result
    /\ log' = IF result # None THEN log \cup {[path |-> result[1].path, what |-> result[1].what]}
              ELSE log
    /\ pc' = "done"
    /\ UNCHANGED <<args, doc, sys, config, settings, dotfiles, raw, tpl,
                   dest_files, dest_dirs, rendered, installed, call, ret>>

\* ------------------------------------------------------------ installation
\* Package::from_aur
from_aur(pkg) == IF pkg.from_aur = None THEN FALSE ELSE pkg.from_aur[1]

\* map(Package::name)
names_of(packages) == [i \in DOMAIN packages |-> packages[i].name]

\* The names also named on the command line, when names were given.
requested(names, to_install) ==
    IF to_install = None THEN names
    ELSE SelectSeq(names, LAMBDA n : \E i \in DOMAIN to_install[1] : to_install[1][i] = n)

filter_packages(packages, to_install, yay_installed) ==
    IF ~yay_installed
    THEN [cmd |-> "pacman",
          packages |-> requested(names_of(SelectSeq(packages, from_aur)), to_install)]
    ELSE [cmd |-> "yay",
          packages |-> requested(names_of(packages), to_install)]

\* install_pkgs: nothing is spawned when no package is left.
install_pkgs(cmd, packages) ==
    IF Len(<<"-S", "--needed">> \o packages) = 2 THEN None
    ELSE Some([cmd |-> cmd, args |-> <<"-S", "--needed">> \o packages])

\* Command::Install: the spawn failing is an expect.
run_installer(invocation, spawned) ==
    IF spawned \/ invocation = None
    THEN installed' = invocation /\ pc' = "done"
    ELSE Panic /\ UNCHANGED installed

install_filtered(f, spawned) == run_installer(install_pkgs(f.cmd, f.packages), spawned)

install ==
    /\ pc = "install"
    /\ \E spawned \in BOOLEAN :
         install_filtered(filter_packages(dotfiles[1].packages, args.packages, sys.yay), spawned)
    /\ UNCHANGED <<args, doc, sys, config, settings, dotfiles, raw, tpl, result,
                   dest_files, dest_dirs, log, rendered, call, ret>>

Next ==
    \/ read_config
    \/ load_settings
    \/ extract_manifest
    \/ parse_args
    \/ deploy_raw
    \/ copy_raw_walk_err
    \/ copy_raw_entry
    \/ copy_raw_return
    \/ deploy_template
    \/ process_templates_walk_err
    \/ process_templates_entry
    \/ process_templates_return
    \/ install

Spec == Init /\ [][Next]_vars

\* ------------------------------------------------- the helpers on their own
\* The path mapping of the two passes and the filter of the template walk,
\* applied to inputs drawn from bounded sets.
MaxList == 2

RECURSIVE SeqsUpTo(_, _)
SeqsUpTo(S, n) ==
    IF n = 0 THEN {<<>>}
    ELSE SeqsUpTo(S, n - 1) \cup {Append(q, x) : q \in SeqsUpTo(S, n - 1), x \in S}

\* Names below a tree root; some repeat the names of the path to the root.
PathNames == { <<"d">>, S_raw, S_template, <<"r", "a", "w", "x">>, S_z }

\* Names for the filter: one is a proper prefix of another.
FilterNames == { S_z, <<"z", "z">>, S_n }

HelperConfigs == {Config(d) : d \in DotfilesPaths}

HelperCall(fn, cfg, tree, rel, kind, to_deploy) ==
    [fn |-> fn, cfg |-> cfg, path |-> entry_path(dots_dir(cfg, tree), rel),
     root |-> cfg.paths.dotfiles_path \o <<"/">> \o tree, rel |-> rel,
     kind |-> kind, to_deploy |-> to_deploy]

PathCalls ==
    {HelperCall("copy_raw", cfg, S_raw, rel, "file", None) :
        cfg \in HelperConfigs, rel \in SeqsUpTo(PathNames, MaxDepth) \ {<<>>}}
    \cup
    {HelperCall("process_templates", cfg, S_template, rel, "file", None) :
        cfg \in HelperConfigs, rel \in SeqsUpTo(PathNames, MaxDepth) \ {<<>>}}

FilterCalls ==
    {HelperCall("filter_entry", cfg, S_template, rel, kind, to_deploy) :
        cfg \in HelperConfigs, rel \in SeqsUpTo(FilterNames, MaxDepth) \ {<<>>},
        kind \in {"file", "dir"},
        to_deploy \in {None} \cup {Some(l) : l \in SeqsUpTo(FilterNames, MaxList)}}

HelperInit ==
    /\ pc = "helpers"
    /\ args = [cmd |-> "Locate", dotfiles |-> None, packages |-> None,
               raw |-> FALSE, template |-> FALSE]
    /\ doc = [found |-> FALSE, ok |-> FALSE, table |-> EmptyMap]
    /\ sys = [sass |-> "missing", yay |-> FALSE, dots |-> None, personal |-> None]
    /\ config = Config(<<>>)
    /\ settings = EmptyMap
    /\ dotfiles = None
    /\ raw = EmptyMap
    /\ tpl = EmptyMap
    /\ result = None
    /\ dest_files = EmptyMap
    /\ dest_dirs = {S_home}
    /\ log = {}
    /\ rendered = {}
    /\ installed = None
    /\ call \in {Some(c) : c \in PathCalls \cup FilterCalls}
    /\ ret = None

\* let target_path = path_str.replace(..) of either pass.
call_target_path ==
    /\ ret = None
    /\ call[1].fn \in {"copy_raw", "process_templates"}
    /\ ret' = Some([target |-> IF call[1].fn = "copy_raw"
                                THEN raw_target(call[1].path, call[1].cfg, S_home)
                                ELSE template_target(call[1].path, call[1].cfg, S_home),
                    keep |-> FALSE, deploy |-> FALSE])
    /\ UNCHANGED <<run_vars, call>>

\* The predicate of filter_entry on one entry of the walk.
call_filter_entry ==
    /\ ret = None
    /\ call[1].fn = "filter_entry"
    /\ ret' = Some([target |-> <<>>,
                    keep |-> filter_entry(call[1], call[1].to_deploy),
                    deploy |-> should_deploy(call[1], call[1].to_deploy)])
    /\ UNCHANGED <<run_vars, call>>

HelperNext == call_target_path \/ call_filter_entry

SpecHelpers == HelperInit /\ [][HelperNext]_vars

\* ================================================================== claims
TemplateRoot == dots_dir(config, S_template)
RawRoot == dots_dir(config, S_raw)
RenderedPaths == {r.path : r \in rendered}
Logged(path) == \E l \in log : l.path = path

FailsToRender(e) ==
    \/ ~template_from_str(e.contents).ok
    \/ ~render(e.contents, settings).ok

\* C1: a template file that fails to parse or render does not abort the run:
\* once it has been handed to the renderer the process has not panicked, an
\* error is logged for it and nothing is written for it.
C1_RenderFailureIsolated ==
    \A e \in file_entries(TemplateTree, TemplateRoot) :
        (e.path \in RenderedPaths /\ FailsToRender(e))
        => /\ pc # "panicked"
           /\ pc = "done" => Logged(e.path)
           /\ template_target(e.path, config, S_home) \notin DOMAIN dest_files

\* C2: the destination of a source path p under the tree root R is the
\* destination root followed by exactly the part of p after R, also when R
\* occurs again inside p.
C2_PrefixAnchored ==
    (ret # None /\ call[1].fn \in {"copy_raw", "process_templates"})
    => ret[1].target
       = S_home \o SubSeq(call[1].path, Len(call[1].root) + 1, Len(call[1].path))

\* C3: with an allow-list L, no template file whose path below template/ has
\* no component in L is written, whatever the path to the dotfiles root is.
C3_OnlyAllowListedTemplates ==
    args.dotfiles # None
    => \A f \in TemplateTree :
          (\A i \in DOMAIN f.rel : f.rel[i] \notin Range(args.dotfiles[1]))
          => \/ entry_path(TemplateRoot, f.rel) \notin DOMAIN tpl
             \/ tpl[entry_path(TemplateRoot, f.rel)] # Status("ok", "written")

\* C4: a filesystem error on one template file (open, read, create_dir_all,
\* write) does not end the pass: when the run is over every entry of the walk
\* has been processed.
C4_FsErrorsIsolated ==
    (pc = "done" /\ \E p \in DOMAIN tpl :
                       tpl[p].res = "err"
                       /\ tpl[p].what \in {"open", "read", "create_dir_all", "write"})
    => \A p \in DOMAIN tpl : Visited(tpl[p])

SegmentNames(path) == {seg \in Range(Split(path, "/")) : seg # <<>>}

\* C5: should_deploy is true without a list, and with a list exactly when a
\* name of the entry's path equals a member of the list; a directory is kept
\* by the walk whatever the list is, a file when should_deploy accepts it.
C5_FilterPredicate ==
    (ret # None /\ call[1].fn = "filter_entry")
    => /\ ret[1].deploy
          = (\/ call[1].to_deploy = None
             \/ \E i \in DOMAIN call[1].to_deploy[1] :
                   call[1].to_deploy[1][i] \in SegmentNames(call[1].path))
       /\ call[1].kind = "dir" => ret[1].keep
       /\ call[1].kind = "file" => (ret[1].keep = ret[1].deploy)

C5_Witness ==
    /\ ret # None
    /\ call[1].fn = "filter_entry"
    /\ call[1].kind = "file"
    /\ call[1].to_deploy = Some(<<S_z>>)
    /\ S_z \notin SegmentNames(call[1].path)
    /\ <<"z", "z">> \in SegmentNames(call[1].path)
    /\ ~ret[1].deploy

HasTextExtension(name) ==
    \E i \in 2..Len(name) :
        /\ name[i] = "."
        /\ \A j \in (i + 1)..Len(name) : name[j] # "."
        /\ SubSeq(name, i + 1, Len(name)) \notin {<<"p", "n", "g">>, <<"j", "p", "g">>}

Classified(path, name) ==
    /\ (path \in RenderedPaths) => (path \in DOMAIN tpl /\ Visited(tpl[path]))
    /\ (path \in DOMAIN tpl /\ Visited(tpl[path]))
       => /\ (path \in RenderedPaths)
             <=> (HasTextExtension(name) /\ tpl[path].what \notin {"open", "read"})
          /\ ~HasTextExtension(name)
             => /\ tpl[path].what \in {"skipped", "open"}
                /\ template_target(path, config, S_home) \notin DOMAIN dest_files

\* C6: a file the template pass opened and read is handed to the renderer
\* exactly when its name has an extension that is not png or jpg; for a file
\* without an extension or with one of these, nothing is rendered or written.
C6_BinaryClassification ==
    \A f \in TemplateTree : Classified(entry_path(TemplateRoot, f.rel), f.rel[Len(f.rel)])

C6_Witness ==
    /\ \E p \in DOMAIN tpl :
          tpl[p] = Status("ok", "skipped") /\ extension(p) = Some(<<"p", "n", "g">>)
    /\ \E p \in DOMAIN tpl : tpl[p] = Status("ok", "skipped") /\ extension(p) = None
    /\ \E p \in DOMAIN tpl :
          tpl[p] = Status("ok", "written") /\ extension(p) = Some(<<"s", "h">>)
          /\ p \in RenderedPaths

\* C7: when post-processing a written .sass/.scss file fails (no compiler, or
\* a non-zero exit) the run does not abort and the remaining entries of the
\* pass are still processed.
C7_PostProcessFailureIsolated ==
    \A p \in DOMAIN tpl :
        (tpl[p].what = "sass" /\ tpl[p].res # "ok")
        => /\ pc # "panicked"
           /\ pc = "done" => \A q \in DOMAIN tpl : Visited(tpl[q])

RawPassOver == pc \in {"deploy_template", "process_templates", "done"}

\* C8: the raw pass never stops early: the process does not abort while a
\* raw file is still to be visited, after the pass every file the walk gave
\* has been attempted, every failure is logged, and a copied file is at its
\* destination with its parent directory in place.
C8_RawPassBestEffort ==
    /\ pc = "panicked" => \A p \in DOMAIN raw : Visited(raw[p])
    /\ (RawPassOver /\ args.cmd = "Deploy" /\ ~args.template)
       => /\ \A p \in DOMAIN raw : Visited(raw[p])
          /\ \A e \in file_entries(RawTree, RawRoot) :
                e.path \in DOMAIN raw
                \/ \E d \in DOMAIN raw : raw[d].res = "logged" /\ StartsWith(e.path, d)
    /\ \A p \in DOMAIN raw :
          /\ raw[p].res = "err" => [path |-> p, what |-> "copy"] \in log
          /\ raw[p].res = "logged" => [path |-> p, what |-> "walk"] \in log
          /\ raw[p].res = "ok"
             => /\ raw_target(p, config, S_home) \in DOMAIN dest_files
                /\ parent(raw_target(p, config, S_home))[1] \in dest_dirs

C8_Witness ==
    /\ pc = "deploy_template"
    /\ \E p \in DOMAIN raw : raw[p].res = "err"
    /\ \E p \in DOMAIN raw : raw[p].res = "ok"
    /\ \E l \in log : l.what = "create_dir_all"

ConfigError ==
    \/ ~doc.found
    \/ ~doc.ok
    \/ "dottery" \notin DOMAIN doc.table
    \/ doc.table["dottery"].shape # "manifest"

\* C9: when ..toml cannot be parsed, has no `dottery` key, or its value is not
\* a manifest, the run never gets past the loading of the settings: no raw
\* file is copied, no template is rendered or written, nothing is installed.
C9_ConfigErrorIsFatal ==
    ConfigError
    => /\ pc \in {"read_config", "load_settings", "extract_manifest", "panicked"}
       /\ raw = EmptyMap
       /\ tpl = EmptyMap
       /\ dest_files = EmptyMap
       /\ rendered = {}
       /\ installed = None

C9_Witness ==
    /\ pc = "panicked"
    /\ args.cmd = "Deploy"
    /\ sys.dots # None
    /\ doc.found /\ doc.ok
    /\ "dottery" \in DOMAIN doc.table
    /\ doc.table["dottery"].shape # "manifest"

ExpectedPackages(cmd) ==
    names_of(SelectSeq(dotfiles[1].packages,
                       LAMBDA q : /\ cmd = "yay" \/ q.from_aur \in {None, Some(FALSE)}
                                  /\ \/ args.packages = None
                                     \/ q.name \in Range(args.packages[1])))

\* C10: yay is given every declared package (of those requested, if any were),
\* pacman exactly the declared packages whose from_aur is false or unset.
C10_BackendFilter ==
    installed # None
    => SubSeq(installed[1].args, 3, Len(installed[1].args))
       = ExpectedPackages(installed[1].cmd)

\* The shallow, overlay-wins merge of a base and an overlay document, without
\* the reserved key.
MergedSettings(B, O) ==
    [k \in (DOMAIN B \cup DOMAIN O) \ {"dottery"} |->
        IF k \in DOMAIN O THEN O[k] ELSE B[k]]

OverlayDocument == IF sys.personal = None THEN EmptyMap ELSE sys.personal[1]

\* C11: the settings handed to every render are the top-level merge of ..toml
\* and .personal.toml: for each key other than `dottery`, the overlay's value
\* when the overlay has the key and the base's value otherwise.
C11_OverlayWins ==
    \A r \in rendered : r.ctx = MergedSettings(doc.table, OverlayDocument)

\* C12: every render of a run is given the same settings, the ones main
\* holds, and they have no top-level key `dottery`.
C12_ReservedKeyHidden ==
    \A r \in rendered :
        /\ "dottery" \notin DOMAIN r.ctx
        /\ r.ctx = settings
        /\ \A q \in rendered : q.ctx = r.ctx

C12_Witness ==
    /\ Cardinality(rendered) >= 2
    /\ "dottery" \in DOMAIN doc.table
    /\ \E r \in rendered : DOMAIN r.ctx # {}

\* C13: with an allow-list L the raw pass copies only files that have a path
\* component in L: a raw file none of whose path components is in L is not
\* copied to the home directory.
C13_RawPassFiltered ==
    (args.cmd = "Deploy" /\ args.dotfiles # None)
    => \A p \in DOMAIN raw :
          SegmentNames(p) \cap Range(args.dotfiles[1]) = {}
          => /\ raw[p] # Status("ok", "copied")
             /\ raw_target(p, config, S_home) \notin DOMAIN dest_files
====
